---- MODULE Spec2Model ----
(***************************************************************************)
(* The in-process object cache of storage/objcache: the LRU backend        *)
(* (lru.go) on top of the eviction engine lru.Cache (package storage/lru). *)
(* One engine is tracked, together with the backends that hold a reference *)
(* to it.  A backend call runs to completion as one step, except under     *)
(* SpecConc, where every engine operation of a batched call is a step.     *)
(***************************************************************************)
EXTENDS Integers, Sequences, FiniteSets, TLC

\* ------------------------------------------------------------------ bounds
\* Longest keys / values slice handed to one batched call.
MaxBatch == 2
\* Largest small Capacity tried by the options specification SpecOptions.
MaxCapacity == 12

\* ------------------------------------------------------- program constants
DefaultSizeCapacity == 67108864
DefaultCountCapacity == 5000

\* ------------------------------------------------------------ input domains
Keys == {"a", "b", "c"}
Backends == {"s1", "s2"}
\* The backends that issue calls under Spec.
Callers == {"s1"}

\* A []byte: the nil slice, or a (possibly empty) sequence of bytes.
NilBytes == [isnil |-> TRUE, bytes |-> <<>>]
Bytes(s) == [isnil |-> FALSE, bytes |-> s]
SixBytes == Bytes(<<1, 2, 3, 4, 5, 6>>)
Values == {NilBytes, Bytes(<<>>), SixBytes}
len(v) == Len(v.bytes)

\* Capacities a caller writes into LRUOptions.Capacity.
Capacities == {0, 2, 10}
\* The same for the options specification: unset, negative, small, the defaults.
OptionCapacities == (-1..MaxCapacity) \cup {DefaultCountCapacity, DefaultSizeCapacity}

\* []time.Duration arguments of Set.
Expirations == {<<-1, 3600>>}
\* Besides nil: shorter than keys and negative, zero and large durations.
ExpirationArgs == {<<-1>>, <<0, 2147483647>>}

SeqsUpTo(S, n) == UNION {[1..m -> S] : m \in 0..n}
KeySeqs == SeqsUpTo(Keys, MaxBatch)
\* values slices for a given keys slice: Set reads values[i] only for
\* i < len(keys), the elements behind that are never read and are fixed here.
ValueSeqs(keys) ==
    {vs \in SeqsUpTo(Values, MaxBatch) :
        \A i \in 1..Len(vs) : i > Len(keys) => vs[i] = NilBytes}
\* The argument lists <<keys, values, expirations>> of Set.
SetInputs ==
    UNION {{<<keys, values, e>> : values \in ValueSeqs(keys), e \in Expirations} :
           keys \in KeySeqs}

\* The goroutines that call one backend at the same time under SpecConc.
Goroutines == {"g1", "g2"}
\* A batched call in progress: i is the index of the item the loop is at,
\* out the results gathered by a Get.  op = "none": no call.
NoCall == [op |-> "none", keys |-> <<>>, values |-> <<>>, i |-> 1, out |-> <<>>,
           fault |-> FALSE]
NewCall(op, keys, values) == [NoCall EXCEPT !.op = op, !.keys = keys, !.values = values]

\* ------------------------------------------------------------------- state
VARIABLES
    cache,   \* the engine *lru.Cache shared by the backends (made = FALSE: none yet)
    opt,     \* opt[s]: the LRUOptions snapshot held by backend s
    ret,     \* the call that completed last and what it returned
    given,   \* SpecOptions only: the *LRUOptions argument NewLRU is called with
    calls,   \* SpecConc only: calls[g] is the batched call goroutine g is in
    start    \* SpecConc only: the engine when the calls in flight were started

vars == <<cache, opt, ret, given, calls, start>>

\* ------------------------------------------------- lruCache values (lru.go)
itemBySize(v) == [typ |-> "itemBySize", data |-> v]
itemByCount(v) == [typ |-> "itemByCount", data |-> v]

itemBySize_Size(li) == len(li.data)

\* A count item weighed like a size item.
itemByCount_Size_ByLen(li) == len(li.data)
itemByCount_Size(li) == 1

\* lru.Value.Size(): dispatch on the dynamic type of the stored value.
Size(v) == IF v.typ = "itemBySize" THEN itemBySize_Size(v) ELSE itemByCount_Size(v)

\* --------------------------------------------- eviction engine (lru.Cache)
NoCache == [made |-> FALSE, capacity |-> 0, size |-> 0, list |-> <<>>]

lruNew(capacity) == [made |-> TRUE, capacity |-> capacity, size |-> 0, list |-> <<>>]

\* The list is the recency order, most-recently-used entry first.
lruKeys(C) == {C.list[i].key : i \in 1..Len(C.list)}
lruIndex(C, key) == CHOOSE i \in 1..Len(C.list) : C.list[i].key = key
lruWithout(C, key) == SelectSeq(C.list, LAMBDA e : e.key # key)

\* While total weight exceeds Capacity evict the least-recently-used entry;
\* the entry just inserted (the head) is never evicted.
RECURSIVE lruCheckCapacity(_)
lruCheckCapacity(C) ==
    IF C.size > C.capacity /\ Len(C.list) > 1
    THEN LET del == C.list[Len(C.list)]
         IN lruCheckCapacity([C EXCEPT !.list = SubSeq(C.list, 1, Len(C.list) - 1),
                                       !.size = C.size - del.size])
    ELSE C

lruGet(C, key) ==
    IF key \in lruKeys(C)
    THEN LET e == C.list[lruIndex(C, key)]
         IN [cache |-> [C EXCEPT !.list = <<e>> \o lruWithout(C, key)],
             itm |-> e.value, ok |-> TRUE]
    ELSE [cache |-> C, itm |-> itemByCount(NilBytes), ok |-> FALSE]

lruOldSize(C, key) ==
    IF key \in lruKeys(C) THEN C.list[lruIndex(C, key)].size ELSE 0

lruPut(C, e) ==
    lruCheckCapacity([C EXCEPT !.list = <<e>> \o lruWithout(C, e.key),
                               !.size = C.size - lruOldSize(C, e.key) + e.size])

lruSet(C, key, value) ==
    lruPut(C, [key |-> key, value |-> value, size |-> Size(value)])

lruDelete(C, key) ==
    IF key \in lruKeys(C)
    THEN [C EXCEPT !.list = lruWithout(C, key),
                   !.size = C.size - C.list[lruIndex(C, key)].size]
    ELSE C

lruClear(C) == [C EXCEPT !.list = <<>>, !.size = 0]

\* ------------------------------------------------------ LRU backend (lru.go)
\* LRUOptions without the LRUCache pointer, which is the variable cache.
\* made = FALSE: the nil *LRUOptions, or a backend that is not constructed.
NoOptions == [made |-> FALSE, Capacity |-> 0, TrackBySize |-> FALSE,
              TrackByObjectCount |-> FALSE]
LRUOptions(capacities) ==
    [made : {TRUE}, Capacity : capacities, TrackBySize : BOOLEAN,
     TrackByObjectCount : BOOLEAN]
\* The arguments of NewLRU: nil or a pointer to an LRUOptions.
OptionArgs(capacities) == {NoOptions} \cup LRUOptions(capacities)

\* if o == nil { o = &LRUOptions{} }
OrZero(o) == IF o.made THEN o ELSE [NoOptions EXCEPT !.made = TRUE]

\* The two cases for an unset Capacity in the other order.
ResolveOptions_CountFirst(o) ==
    CASE o.TrackByObjectCount /\ o.Capacity = 0 ->
            [o EXCEPT !.Capacity = DefaultCountCapacity]
      [] o.TrackBySize /\ o.Capacity = 0 ->
            [o EXCEPT !.Capacity = DefaultSizeCapacity]
      [] o.TrackBySize -> o
      [] o.TrackByObjectCount -> o
      [] OTHER -> [o EXCEPT !.TrackByObjectCount = TRUE,
                            !.Capacity = DefaultCountCapacity]

\* The empty case for TrackByObjectCount left out.
ResolveOptions_NoCountCase(o) ==
    CASE o.TrackBySize /\ o.Capacity = 0 ->
            [o EXCEPT !.Capacity = DefaultSizeCapacity]
      [] o.TrackByObjectCount /\ o.Capacity = 0 ->
            [o EXCEPT !.Capacity = DefaultCountCapacity]
      [] o.TrackBySize -> o
      [] OTHER -> [o EXCEPT !.TrackByObjectCount = TRUE,
                            !.Capacity = DefaultCountCapacity]

\* The switch of NewLRU.
ResolveOptions(o) ==
    CASE o.TrackBySize /\ o.Capacity = 0 ->
            [o EXCEPT !.Capacity = DefaultSizeCapacity]
      [] o.TrackByObjectCount /\ o.Capacity = 0 ->
            [o EXCEPT !.Capacity = DefaultCountCapacity]
      [] o.TrackBySize -> o
      [] o.TrackByObjectCount -> o
      [] OTHER -> [o EXCEPT !.TrackByObjectCount = TRUE,
                            !.Capacity = DefaultCountCapacity]

\* What a call hands back: the values of a Get, the error, or no return at
\* all when the call panicked.
\* removed counts the entries that left the engine during the call.
Returned(op, values, removed, fault) ==
    [op |-> op, values |-> values, removed |-> removed,
     err |-> IF fault THEN "panic" ELSE "nil", fault |-> fault]

\* for i, key := range keys { ... c.opt.LRUCache.Set(key, v) }
\* values[i] with i >= len(values) is an index out of range: the call panics
\* with the keys before i already stored.  The expirations are not read.
RECURSIVE SetLoop(_, _, _, _, _, _)
\* The condition on TrackBySize inverted.
RECURSIVE SetLoop_Inverted(_, _, _, _, _, _)
SetLoop_Inverted(c, C, keys, values, expirations, i) ==
    IF i > Len(keys) THEN [cache |-> C, values |-> <<>>, fault |-> FALSE]
    ELSE IF i > Len(values) THEN [cache |-> C, values |-> <<>>, fault |-> TRUE]
    ELSE LET v == IF ~c.TrackBySize THEN itemBySize(values[i])
                  ELSE itemByCount(values[i])
         IN SetLoop_Inverted(c, lruSet(C, keys[i], v), keys, values, expirations, i + 1)

\* A key whose expiration is given and not positive is not stored.
RECURSIVE SetLoop_Expiring(_, _, _, _, _, _)
SetLoop_Expiring(c, C, keys, values, expirations, i) ==
    IF i > Len(keys) THEN [cache |-> C, values |-> <<>>, fault |-> FALSE]
    ELSE IF i > Len(values) THEN [cache |-> C, values |-> <<>>, fault |-> TRUE]
    ELSE IF i <= Len(expirations) /\ expirations[i] <= 0
    THEN SetLoop_Expiring(c, C, keys, values, expirations, i + 1)
    ELSE LET v == IF c.TrackBySize THEN itemBySize(values[i])
                  ELSE itemByCount(values[i])
         IN SetLoop_Expiring(c, lruSet(C, keys[i], v), keys, values, expirations, i + 1)

SetLoop(c, C, keys, values, expirations, i) ==
    IF i > Len(keys) THEN [cache |-> C, values |-> <<>>, fault |-> FALSE]
    ELSE IF i > Len(values) THEN [cache |-> C, values |-> <<>>, fault |-> TRUE]
    ELSE LET v == IF c.TrackBySize THEN itemBySize(values[i])
                  ELSE itemByCount(values[i])
         IN SetLoop(c, lruSet(C, keys[i], v), keys, values, expirations, i + 1)

\* for _, key := range keys { itm, ok := c.opt.LRUCache.Get(key) ... }
\* The type assertion on a hit panics when the stored value has the other
\* dynamic type; the engine has promoted the entry by then.
RECURSIVE GetLoop(_, _, _, _, _)
\* The body of the loop for keys[i], r being what the engine's Get returned.
GetBody(c, r, keys, values, i) ==
    IF r.ok
    THEN IF r.itm.typ = (IF c.TrackByObjectCount THEN "itemByCount" ELSE "itemBySize")
         THEN GetLoop(c, r.cache, keys, Append(values, r.itm.data), i + 1)
         ELSE [cache |-> r.cache, values |-> <<>>, fault |-> TRUE]
    ELSE GetLoop(c, r.cache, keys, Append(values, NilBytes), i + 1)

GetLoop(c, C, keys, values, i) ==
    IF i > Len(keys) THEN [cache |-> C, values |-> values, fault |-> FALSE]
    ELSE GetBody(c, lruGet(C, keys[i]), keys, values, i)

RECURSIVE DeleteLoop(_, _, _)
DeleteLoop(C, keys, i) ==
    IF i > Len(keys) THEN [cache |-> C, values |-> <<>>, fault |-> FALSE]
    ELSE DeleteLoop(lruDelete(C, keys[i]), keys, i + 1)

\* A Set that stores nothing when one of its keys is already present.
lruCache_Set_IfAbsent(c, C, keys, values, expirations) ==
    IF \E i \in 1..Len(keys) : keys[i] \in lruKeys(C)
    THEN [cache |-> C, values |-> <<>>, fault |-> FALSE]
    ELSE SetLoop(c, C, keys, values, expirations, 1)
lruCache_Set(c, C, keys, values, expirations) ==
    SetLoop(c, C, keys, values, expirations, 1)
\* The lookups done without touching the recency order.
lruCache_Get_Peek(c, C, keys) == [GetLoop(c, C, keys, <<>>, 1) EXCEPT !.cache = C]
\* A Get that takes the entries it looked up out of the cache.
lruCache_Get_Consume(c, C, keys) ==
    [GetLoop(c, C, keys, <<>>, 1) EXCEPT !.cache = DeleteLoop(@, keys, 1).cache]
lruCache_Get(c, C, keys) == GetLoop(c, C, keys, <<>>, 1)
\* Delete written as a copy of Truncate.
lruCache_Delete_Clear(c, C, keys) ==
    [cache |-> IF keys = <<>> THEN C ELSE lruClear(C), values |-> <<>>, fault |-> FALSE]
\* The loop of Delete stops before the last key.
lruCache_Delete_SkipLast(c, C, keys) ==
    DeleteLoop(C, SubSeq(keys, 1, Len(keys) - 1), 1)
lruCache_Delete(c, C, keys) == DeleteLoop(C, keys, 1)
\* Truncate without the call of Clear.
lruCache_Truncate_Noop(c, C) == [cache |-> C, values |-> <<>>, fault |-> FALSE]
lruCache_Truncate(c, C) == [cache |-> lruClear(C), values |-> <<>>, fault |-> FALSE]
\* Close without the call of Clear.
lruCache_Close_Noop(c, C) == [cache |-> C, values |-> <<>>, fault |-> FALSE]
lruCache_Close(c, C) == [cache |-> lruClear(C), values |-> <<>>, fault |-> FALSE]

\* ----------------------------------------------------------------- actions
\* The entries of C that are gone, or were replaced by a Set, in D.
\* The number of keys of engine C that are absent from engine D.
Removed(C, D) == Cardinality(lruKeys(C) \ lruKeys(D))

\* A call that returns r = [cache, values, fault] ends the step.
Return(op, r) ==
    /\ cache' = r.cache
    /\ ret' = Returned(op, r.values, Removed(cache, r.cache), r.fault)

Init ==
    /\ cache = NoCache
    /\ opt = [s \in Backends |-> NoOptions]
    /\ ret = Returned("none", <<>>, 0, FALSE)
    /\ given = NoOptions
    /\ calls = [g \in Goroutines |-> NoCall]
    /\ start = NoCache

\* NewLRU(o)(): the options are resolved, o.LRUCache is nil and a fresh engine
\* of the resolved Capacity is built, the factory returns the backend.
NewLRU(s, o) ==
    /\ ~opt[s].made
    /\ ~cache.made
    /\ LET r == ResolveOptions(OrZero(o))
       IN /\ opt' = [opt EXCEPT ![s] = r]
          /\ cache' = lruNew(r.Capacity)
    /\ ret' = Returned("NewLRU", <<>>, 0, FALSE)
    /\ UNCHANGED <<given, calls, start>>

Set(s, keys, values, expirations) ==
    /\ opt[s].made
    /\ Return("Set", lruCache_Set(opt[s], cache, keys, values, expirations))
    /\ UNCHANGED <<opt, given, calls, start>>

Get(s, keys) ==
    /\ opt[s].made
    /\ Return("Get", lruCache_Get(opt[s], cache, keys))
    /\ UNCHANGED <<opt, given, calls, start>>

Truncate(s) ==
    /\ opt[s].made
    /\ Return("Truncate", lruCache_Truncate(opt[s], cache))
    /\ UNCHANGED <<opt, given, calls, start>>

Delete(s, keys) ==
    /\ opt[s].made
    /\ Return("Delete", lruCache_Delete(opt[s], cache, keys))
    /\ UNCHANGED <<opt, given, calls, start>>

Close(s) ==
    /\ opt[s].made
    /\ Return("Close", lruCache_Close(opt[s], cache))
    /\ UNCHANGED <<opt, given, calls, start>>

Next ==
    \/ \E s \in Callers, o \in OptionArgs(Capacities) : NewLRU(s, o)
    \/ \E s \in Callers, in \in SetInputs : Set(s, in[1], in[2], in[3])
    \/ \E s \in Callers, keys \in KeySeqs : Get(s, keys)
    \/ \E s \in Callers : Truncate(s)
    \/ \E s \in Callers, keys \in KeySeqs : Delete(s, keys)
    \/ \E s \in Callers : Close(s)

Spec == Init /\ [][Next]_vars

\* ------------------------------------------- the options of NewLRU, alone
\* NewLRU as a function of its argument: the argument is drawn first, then
\* NewLRU is applied to it.
InitOptions ==
    /\ cache = NoCache
    /\ opt = [s \in Backends |-> NoOptions]
    /\ ret = Returned("none", <<>>, 0, FALSE)
    /\ given \in OptionArgs(OptionCapacities)
    /\ calls = [g \in Goroutines |-> NoCall]
    /\ start = NoCache

NextOptions == NewLRU("s1", given)

SpecOptions == InitOptions /\ [][NextOptions]_vars

\* ------------------------------------- two backends on one injected engine
\* Capacities of the engines a caller builds itself and of the options.
EngineCapacities == {2, 10}
SharedCapacities == {2}
\* The single-key and empty calls issued by the two backends.
SharedKeySeqs == SeqsUpTo({"a", "b"}, 1)
SharedSetInputs ==
    {<<keys, values, <<>>>> : keys \in SharedKeySeqs \ {<<>>},
                              values \in {<<SixBytes>>, <<Bytes(<<>>)>>}}

\* The caller builds an engine to hand to NewLRU: lru.New(capacity).
LruNew(capacity) ==
    /\ ~cache.made
    /\ cache' = lruNew(capacity)
    /\ ret' = Returned("lru.New", <<>>, 0, FALSE)
    /\ UNCHANGED <<opt, given, calls, start>>

\* NewLRU(o)() with o.LRUCache set to the engine: the options are resolved,
\* o.LRUCache is not nil and is kept as it is, the factory returns the backend.
NewLRUInjected(s, o) ==
    /\ ~opt[s].made
    /\ o.made
    /\ cache.made
    /\ opt' = [opt EXCEPT ![s] = ResolveOptions(o)]
    /\ ret' = Returned("NewLRU", <<>>, 0, FALSE)
    /\ UNCHANGED <<cache, given, calls, start>>

NextShared ==
    \/ \E capacity \in EngineCapacities : LruNew(capacity)
    \/ \E s \in Backends, o \in OptionArgs(SharedCapacities) : NewLRU(s, o)
    \/ \E s \in Backends, o \in LRUOptions(SharedCapacities) : NewLRUInjected(s, o)
    \/ \E s \in Backends, in \in SharedSetInputs : Set(s, in[1], in[2], in[3])
    \/ \E s \in Backends, keys \in SharedKeySeqs : Get(s, keys)
    \/ \E s \in Backends : Truncate(s)
    \/ \E s \in Backends, keys \in SharedKeySeqs : Delete(s, keys)
    \/ \E s \in Backends : Close(s)

SpecShared == Init /\ [][NextShared]_vars

\* ------------------------------------ goroutines calling one backend at once
\* The backend is a value holding the engine pointer; the engine takes its
\* one lock for every Set, Get, Delete and Clear, so each of these is a step.
\* The options the shared backend is constructed with.
ConcOptions ==
    {[made |-> TRUE, Capacity |-> 2, TrackBySize |-> FALSE, TrackByObjectCount |-> TRUE],
     [made |-> TRUE, Capacity |-> 10, TrackBySize |-> TRUE, TrackByObjectCount |-> FALSE]}
ConcKeySeqs == SeqsUpTo({"a", "b"}, MaxBatch)
\* The value goroutine g writes with every Set.
ValueOf(g) == IF g = "g1" THEN SixBytes ELSE Bytes(<<>>)
\* The batched calls goroutine g may be in.
ConcCalls(g) ==
    {NewCall("Set", keys, [i \in 1..Len(keys) |-> ValueOf(g)]) : keys \in ConcKeySeqs}
    \cup {NewCall(op, keys, <<>>) : op \in {"Get", "Delete"}, keys \in ConcKeySeqs \ {<<>>}}
    \cup {NewCall("Truncate", <<>>, <<>>)}

\* The number of engine operations a call makes.
NumOps(call) ==
    CASE call.op = "Truncate" -> 1
      [] call.op = "none" -> 0
      [] OTHER -> Len(call.keys)
Complete(call) == call.fault \/ call.i > NumOps(call)

\* The body of Set's loop for one key.
SetKey(c, C, key, value) ==
    lruSet(C, key, IF c.TrackBySize THEN itemBySize(value) ELSE itemByCount(value))

\* The engine's Get without the promotion of the entry.
GetKey_Peek(c, C, key) == [lruGet(C, key) EXCEPT !.cache = C]
\* The engine call in the body of Get's loop for one key.
GetKey(c, C, key) == lruGet(C, key)

\* The call after the body of its loop has run for item call.i on engine C.
CallAfterGet(c, r, call) ==
    IF r.ok
    THEN IF r.itm.typ = (IF c.TrackByObjectCount THEN "itemByCount" ELSE "itemBySize")
         THEN [call EXCEPT !.i = @ + 1, !.out = Append(@, r.itm.data)]
         ELSE [call EXCEPT !.fault = TRUE]
    ELSE [call EXCEPT !.i = @ + 1, !.out = Append(@, NilBytes)]

\* One pass of the loop of the call (the whole of Truncate): the engine and
\* the call afterwards.
KeyStep(c, C, call) ==
    CASE call.op = "Set" ->
            IF call.i > Len(call.values)
            THEN [cache |-> C, call |-> [call EXCEPT !.fault = TRUE]]
            ELSE [cache |-> SetKey(c, C, call.keys[call.i], call.values[call.i]),
                  call |-> [call EXCEPT !.i = @ + 1]]
      [] call.op = "Get" ->
            [cache |-> GetKey(c, C, call.keys[call.i]).cache,
             call |-> CallAfterGet(c, GetKey(c, C, call.keys[call.i]), call)]
      [] call.op = "Delete" ->
            [cache |-> lruDelete(C, call.keys[call.i]),
             call |-> [call EXCEPT !.i = @ + 1]]
      [] call.op = "Truncate" ->
            [cache |-> lruClear(C), call |-> [call EXCEPT !.i = @ + 1]]

\* go b.<call1>; go b.<call2>: both goroutines enter their calls.
Begin(call1, call2) ==
    /\ opt["s1"].made
    /\ \A g \in Goroutines : calls[g].op = "none"
    /\ calls' = [g \in Goroutines |-> IF g = "g1" THEN call1 ELSE call2]
    /\ start' = cache
    /\ UNCHANGED <<cache, opt, ret, given>>

\* Goroutine g holds the engine's lock for the next item of its call.
Step(g) ==
    /\ calls[g].op # "none"
    /\ ~Complete(calls[g])
    /\ cache' = KeyStep(opt["s1"], cache, calls[g]).cache
    /\ calls' = [calls EXCEPT ![g] = KeyStep(opt["s1"], cache, calls[g]).call]
    /\ UNCHANGED <<opt, ret, given, start>>

\* Both calls have returned.
Join ==
    /\ \A g \in Goroutines : calls[g].op # "none" /\ Complete(calls[g])
    /\ calls' = [g \in Goroutines |-> NoCall]
    /\ start' = NoCache
    /\ UNCHANGED <<cache, opt, ret, given>>

NextConc ==
    \/ \E o \in ConcOptions : NewLRU("s1", o)
    \/ \E call1 \in ConcCalls("g1"), call2 \in ConcCalls("g2") : Begin(call1, call2)
    \/ \E g \in Goroutines : Step(g)
    \/ Join

SpecConc == Init /\ [][NextConc]_vars

\* ------------------------------------------------------------------ claims
\* The backends that are constructed.
Made == {s \in Backends : opt[s].made}

\* The weight of a stored value by the glossary: 1 for an entry written in
\* count mode, the byte length for an entry written in size mode.
Weight(value) == IF value.typ = "itemBySize" THEN Len(value.data.bytes) ELSE 1

RECURSIVE ListWeight(_)
ListWeight(list) ==
    IF list = <<>> THEN 0 ELSE Weight(Head(list).value) + ListWeight(Tail(list))

\* Total weight is within Capacity, or one oversized entry is alone.
Bounded(C) ==
    /\ C.size = ListWeight(C.list)
    /\ \/ C.size <= C.capacity
       \/ Len(C.list) = 1 /\ Weight(C.list[1].value) > C.capacity

\* D is the engine after a single-key Set of key: the entry is at the head and
\* is alone exactly when its own weight exceeds Capacity.
BoundedAfterSet(D, key) ==
    /\ Bounded(D)
    /\ Len(D.list) >= 1
    /\ D.list[1].key = key
    /\ Weight(D.list[1].value) > D.capacity
         => Len(D.list) = 1 /\ D.size = Weight(D.list[1].value)
    /\ Weight(D.list[1].value) <= D.capacity => D.size <= D.capacity

\* C1: in every reachable state of every mode the engine's total weight is
\* the sum of the entries' weights and is at most Capacity, unless a single
\* entry heavier than Capacity is alone in the cache; and a single-key Set
\* from any reachable state leaves total weight within Capacity, except that
\* an item heavier than Capacity is retained alone with total weight equal to
\* its own weight.
C1_CapacityInvariant ==
    cache.made =>
        /\ Bounded(cache)
        /\ \A s \in Made, k \in Keys, v \in Values :
              BoundedAfterSet(lruCache_Set(opt[s], cache, <<k>>, <<v>>, <<>>).cache, k)

\* A Set of an item heavier than Capacity evicted the other entries and kept it.
C1_Witness ==
    /\ ret.op = "Set" /\ ~ret.fault /\ ret.removed > 0
    /\ Len(cache.list) = 1
    /\ cache.size > cache.capacity

\* The single-key calls the claims are stated with.
Set1(s, C, k, v) == lruCache_Set(opt[s], C, <<k>>, <<v>>, <<>>)
Get1(s, C, k) == lruCache_Get(opt[s], C, <<k>>)
CountMode(s) == opt[s].TrackByObjectCount /\ ~opt[s].TrackBySize
SizeMode(s) == opt[s].TrackBySize /\ ~opt[s].TrackByObjectCount

Max(S) == CHOOSE m \in S : \A n \in S : n <= m
\* The length of the longest prefix of list whose weight fits capacity; the
\* head alone when nothing fits.
Fit(list, capacity) ==
    Max({1} \cup {m \in 1..Len(list) : ListWeight(SubSeq(list, 1, m)) <= capacity})

\* D is engine C after a single-key Set of key: D holds the longest fitting
\* prefix of the recency order with the new entry moved to its head.
PrefixAfterSet(C, D, key) ==
    /\ Len(D.list) >= 1 /\ D.list[1].key = key
    /\ D.list = SubSeq(<<D.list[1]>> \o lruWithout(C, key), 1,
                       Fit(<<D.list[1]>> \o lruWithout(C, key), C.capacity))

\* Single-key Sets of ks[i] with vs[i], in order.
RECURSIVE SetEach(_, _, _, _, _)
SetEach(s, C, ks, vs, i) ==
    IF i > Len(ks) THEN C
    ELSE SetEach(s, Set1(s, C, ks[i], vs[i]).cache, ks, vs, i + 1)

Misses(s, D, k) ==
    k \notin lruKeys(D) /\ Get1(s, D, k).values = <<NilBytes>> /\ ~Get1(s, D, k).fault
Hits(s, D, k, v) ==
    k \in lruKeys(D) /\ Get1(s, D, k).values = <<v>> /\ ~Get1(s, D, k).fault

\* D is the engine after the Sets of the fresh keys ks with the values vs.
FirstOutRestIn(s, D, ks, vs) ==
    /\ Misses(s, D, ks[1])
    /\ \A i \in 2..Len(ks) : Hits(s, D, ks[i], vs[i])

\* Count mode, capacity N: N+1 distinct fresh keys are Set, no Gets between.
ScenarioA(s) ==
    (CountMode(s) /\ cache.capacity + 1 <= Cardinality(Keys)) =>
        \A ks \in [1..(cache.capacity + 1) -> Keys \ lruKeys(cache)] :
            (\A i, j \in DOMAIN ks : i # j => ks[i] # ks[j]) =>
                \A vs \in [DOMAIN ks -> Values] :
                    FirstOutRestIn(s, SetEach(s, cache, ks, vs, 1), ks, vs)

\* Size mode, capacity 10: Set x with 6 bytes, then Set y with 6 bytes.
ScenarioB(s) ==
    (SizeMode(s) /\ cache.capacity = 10) =>
        \A x, y \in Keys : \A vx, vy \in {v \in Values : len(v) = 6} :
            x # y => /\ Misses(s, SetEach(s, cache, <<x, y>>, <<vx, vy>>, 1), x)
                     /\ Hits(s, SetEach(s, cache, <<x, y>>, <<vx, vy>>, 1), y, vy)

\* C2: a single-key Set from any reachable state leaves exactly the longest
\* prefix of the recency order (new entry first) whose weight fits Capacity,
\* so eviction takes entries from the least-recently-used end only and stops
\* as soon as the weight fits; in count mode with capacity N, N+1 fresh keys
\* leave the first one missing and the other N present; in size mode with
\* capacity 10 two 6-byte Sets leave the first one missing.
C2_EvictionOrder ==
    cache.made =>
        \A s \in Made :
            /\ \A k \in Keys, v \in Values :
                  /\ ~Set1(s, cache, k, v).fault
                  /\ PrefixAfterSet(cache, Set1(s, cache, k, v).cache, k)
            /\ ScenarioA(s)
            /\ ScenarioB(s)

\* A Set evicted an entry and stopped while other entries were still held.
C2_Witness ==
    /\ ret.op = "Set" /\ ~ret.fault /\ ret.removed > 0
    /\ Len(cache.list) > 1
    /\ cache.size <= cache.capacity

\* D is engine C after a Get that hit key: the entry is the head, the other
\* entries follow in their old order.
PromotedAfterGet(C, D, key) ==
    D = [C EXCEPT !.list = <<C.list[lruIndex(C, key)]>> \o lruWithout(C, key)]

\* D is the engine after Get(key) and then a Set of another key k2: key is
\* gone only if every other old entry is gone.
LastToGo(D, key, k2) == key \notin lruKeys(D) => lruKeys(D) = {k2}

\* Count mode, capacity 2: Set a, Set b, Get a, Set c.
ScenarioC(s) ==
    (CountMode(s) /\ cache.capacity = 2) =>
        \A ks \in [1..3 -> Keys], vs \in [1..3 -> Values] :
            (ks[1] # ks[2] /\ ks[1] # ks[3] /\ ks[2] # ks[3]) =>
                /\ Hits(s, SetEach(s, cache, SubSeq(ks, 1, 2), vs, 1), ks[1], vs[1])
                /\ Misses(s, Set1(s, Get1(s, SetEach(s, cache, SubSeq(ks, 1, 2), vs, 1),
                                         ks[1]).cache, ks[3], vs[3]).cache, ks[2])
                /\ Hits(s, Set1(s, Get1(s, SetEach(s, cache, SubSeq(ks, 1, 2), vs, 1),
                                       ks[1]).cache, ks[3], vs[3]).cache, ks[1], vs[1])
                /\ Hits(s, Set1(s, Get1(s, SetEach(s, cache, SubSeq(ks, 1, 2), vs, 1),
                                       ks[1]).cache, ks[3], vs[3]).cache, ks[3], vs[3])

\* C3: from every reachable state a Get that hits key k leaves k at the head
\* of the recency order with the other entries in their old order, a Set of
\* another key right after it evicts k only when it evicts every other old
\* entry, and in count mode with capacity 2 the sequence Set a, Set b, Get a,
\* Set c leaves b absent and a and c present.
C3_GetPromotes ==
    cache.made =>
        \A s \in Made :
            /\ \A k \in lruKeys(cache) :
                  /\ PromotedAfterGet(cache, Get1(s, cache, k).cache, k)
                  /\ \A k2 \in Keys \ {k}, v \in Values :
                        LastToGo(Set1(s, Get1(s, cache, k).cache, k2, v).cache, k, k2)
            /\ ScenarioC(s)

\* A Get of two keys hit both, and the entry it looked up last is now ahead of
\* the entry it looked up first.
C3_Witness ==
    /\ ret.op = "Get" /\ ~ret.fault
    /\ ret.values = <<SixBytes, Bytes(<<>>)>>
    /\ Len(cache.list) = 2
    /\ cache.list[1].value.data = Bytes(<<>>)
    /\ cache.list[2].value.data = SixBytes

\* r is what Set([k], [v], _) returned: no fault, and Get([k]) right after it
\* returns v at position 0 with no fault.
RoundTrips(s, r, k, v) ==
    /\ ~r.fault
    /\ ~Get1(s, r.cache, k).fault
    /\ Get1(s, r.cache, k).values = <<v>>

\* C4: for every accepted Options value, from every reachable state, a Set of
\* one key and value immediately followed by a Get of that key returns
\* exactly that value at position 0 with no error and no fault.
C4_RoundTrip ==
    \A s \in Made, k \in Keys, v \in Values : RoundTrips(s, Set1(s, cache, k, v), k, v)

\* The value stored for key in engine C, the nil placeholder when absent.
Stored(C, key) ==
    IF key \in lruKeys(C) THEN C.list[lruIndex(C, key)].value.data ELSE NilBytes

\* r is what Get(keys) returned from engine C.
Aligned(C, r, keys) ==
    /\ ~r.fault
    /\ Len(r.values) = Len(keys)
    /\ \A i \in 1..Len(keys) : r.values[i] = Stored(C, keys[i])

\* C5: from every reachable state, for every key sequence, Get returns without
\* fault and with a nil error a sequence as long as keys whose element i is
\* the stored value of keys[i], or the nil placeholder when keys[i] is absent.
C5_GetAlignment ==
    /\ \A s \in Made, keys \in KeySeqs :
          Aligned(cache, lruCache_Get(opt[s], cache, keys), keys)
    /\ ret.op = "Get" => ret.err = "nil"

\* What the resolution rule gives for the LRUOptions o (nil: all fields zero).
ExpectedOptions(o) ==
    [made |-> TRUE,
     Capacity |->
        IF o.TrackBySize /\ o.Capacity = 0 THEN 67108864
        ELSE IF o.TrackByObjectCount /\ o.Capacity = 0 THEN 5000
        ELSE IF o.TrackBySize \/ o.TrackByObjectCount THEN o.Capacity
        ELSE 5000,
     TrackBySize |-> o.TrackBySize,
     TrackByObjectCount |->
        IF o.TrackBySize \/ o.TrackByObjectCount THEN o.TrackByObjectCount ELSE TRUE]

\* C6: for every argument of NewLRU (nil, or any combination of the two flags
\* with a zero or non-zero Capacity) the options the backend holds are:
\* TrackBySize with Capacity 0 gives 67108864; otherwise TrackByObjectCount
\* with Capacity 0 gives 5000; otherwise a set flag keeps Capacity as given;
\* neither flag gives TrackByObjectCount = TRUE and Capacity = 5000.
C6_DefaultResolution ==
    opt["s1"].made => opt["s1"] = ExpectedOptions(given)

\* NewLRU was given both flags and no Capacity: the size default won.
C6_Witness ==
    /\ opt["s1"].made
    /\ given.made /\ given.TrackBySize /\ given.TrackByObjectCount
    /\ given.Capacity = 0
    /\ opt["s1"].Capacity = 67108864

\* C7 as stated: every non-zero Capacity is kept, whatever the flags are.
C7_NonZeroKept ==
    (opt["s1"].made /\ given.Capacity # 0) => opt["s1"].Capacity = given.Capacity

\* C7 amended: a non-zero Capacity is kept when at least one tracking flag is
\* set; with neither flag set it is replaced by 5000.
C7_NonZeroKeptWithFlag ==
    (opt["s1"].made /\ given.Capacity # 0) =>
        opt["s1"].Capacity =
            IF given.TrackBySize \/ given.TrackByObjectCount
            THEN given.Capacity ELSE 5000

\* NewLRU kept a non-zero Capacity that is no default, given with a flag.
C7_Witness ==
    /\ opt["s1"].made
    /\ given.TrackByObjectCount /\ ~given.TrackBySize
    /\ given.Capacity \notin {0, 5000, 67108864}
    /\ opt["s1"].Capacity = given.Capacity

\* D is engine C after Truncate through backend s.
Emptied(s, C, D) ==
    /\ D = [C EXCEPT !.list = <<>>, !.size = 0]
    /\ \A k \in lruKeys(C) : Misses(s, D, k)
    /\ \A k \in Keys, v \in Values :
          /\ ~Set1(s, D, k, v).fault
          /\ k \in lruKeys(Set1(s, D, k, v).cache)
          /\ BoundedAfterSet(Set1(s, D, k, v).cache, k)

\* C8: Truncate from any reachable state leaves no entries and total weight
\* zero with Capacity unchanged, every key present before misses, a later Set
\* is accepted and bounded by the same Capacity, and the step changes neither
\* the backend's options (the mode) nor Capacity.
C8_TruncateEmpties ==
    /\ [](\A s \in Made : Emptied(s, cache, lruCache_Truncate(opt[s], cache).cache))
    /\ [][ret'.op = "Truncate" =>
            /\ cache' = [cache EXCEPT !.list = <<>>, !.size = 0]
            /\ opt' = opt
            /\ ~ret'.fault]_vars

\* A Truncate removed entries.
C8_Witness ==
    /\ ret.op = "Truncate" /\ ret.removed > 0
    /\ cache.list = <<>> /\ cache.size = 0

\* C9: a Delete whose keys are all absent returns no error and leaves the
\* engine (entries, values, weights, recency order, total weight, Capacity)
\* and the backend's options as they were.
C9_DeleteAbsent ==
    /\ [](\A s \in Made, keys \in KeySeqs :
            (\A i \in 1..Len(keys) : keys[i] \notin lruKeys(cache)) =>
                lruCache_Delete(opt[s], cache, keys) =
                    [cache |-> cache, values |-> <<>>, fault |-> FALSE])
    /\ [][(ret'.op = "Delete" /\ ret'.removed = 0) =>
            (cache' = cache /\ opt' = opt /\ ret'.err = "nil")]_vars

\* A Delete removed nothing from a cache that holds entries.
C9_Witness ==
    /\ ret.op = "Delete" /\ ret.removed = 0 /\ ~ret.fault
    /\ Len(cache.list) > 0

\* C10: the factory, Set, Delete, Truncate and Close always return a nil
\* error and never fault, whatever the lengths of keys, values and
\* expirations are.
C10_NeverFails ==
    ret.op \in {"NewLRU", "Set", "Delete", "Truncate", "Close"} =>
        (~ret.fault /\ ret.err = "nil")

\* The result of Set does not depend on its expirations argument.
SameForAllExpirations(c, C, keys, values, r) ==
    \A e \in ExpirationArgs : lruCache_Set(c, C, keys, values, e) = r

\* C12: from every reachable state and for every keys and values, Set leaves
\* the same engine state and returns the same result (fault included) for
\* every expirations argument: nil, shorter than keys, zero, negative, large.
C12_ExpirationsIgnored ==
    \A s \in Made, in \in SetInputs :
        SameForAllExpirations(opt[s], cache, in[1], in[2],
                              lruCache_Set(opt[s], cache, in[1], in[2], <<>>))

\* A Set whose first expiration is negative has stored two entries.
C12_Witness ==
    /\ ret.op = "Set" /\ ~ret.fault
    /\ Len(cache.list) = 2
    /\ \A e \in Expirations : e[1] < 0

\* r is what Close through backend options c returns on engine C.
ClosedLikeTruncate(c, C, r) ==
    /\ ~r.fault
    /\ r.cache = [C EXCEPT !.list = <<>>, !.size = 0]
    /\ lruCache_Close(c, r.cache) = r
    /\ r.cache = lruCache_Truncate(c, C).cache

\* C13: Close from any reachable state returns no error and leaves the engine
\* with no entries and total weight zero, a second Close returns no error and
\* leaves the same empty engine, and the engine after Close is the engine
\* after Truncate.
C13_CloseClears ==
    /\ [](\A s \in Made : ClosedLikeTruncate(opt[s], cache, lruCache_Close(opt[s], cache)))
    /\ [][ret'.op = "Close" =>
            /\ cache' = [cache EXCEPT !.list = <<>>, !.size = 0]
            /\ ret'.err = "nil"]_vars

\* A Close removed entries.
C13_Witness ==
    /\ ret.op = "Close" /\ ret.removed > 0 /\ ret.err = "nil"
    /\ cache.made /\ Len(cache.list) = 0 /\ cache.size = 0

\* The entries of C, k aside, that are not in D: the tail of the recency order.
EvictedBySet(C, D, k) ==
    SubSeq(lruWithout(C, k), Len(D.list), Len(lruWithout(C, k)))

\* D is engine C, which holds k, after Set(k, v2) through backend s.
Replaced(s, C, D, k, v2) ==
    /\ Cardinality({i \in 1..Len(D.list) : D.list[i].key = k}) = 1
    /\ D.list[1].key = k
    /\ D.list[1].value.data = v2
    /\ D.list[1].size = Weight(D.list[1].value)
    /\ CountMode(s) => D.list[1].size = 1
    /\ SizeMode(s) => D.list[1].size = Len(v2.bytes)
    /\ PrefixAfterSet(C, D, k)
    /\ D.size + ListWeight(EvictedBySet(C, D, k)) =
          C.size - C.list[lruIndex(C, k)].size + D.list[1].size
    /\ D.capacity = C.capacity

\* C16: Set(k, v2) on a reachable cache that holds k leaves exactly one entry
\* for k, with value v2 and the weight of v2 under the backend's mode, as the
\* most-recently-used entry; total weight before eviction is the old total
\* minus the old weight of k plus the new one, and what is evicted is the
\* least-recently-used end of the other entries.
C16_SetReplaces ==
    \A s \in Made, k \in lruKeys(cache), v2 \in Values :
        /\ ~Set1(s, cache, k, v2).fault
        /\ Replaced(s, cache, Set1(s, cache, k, v2).cache, k, v2)

\* After a Set the cache holds a key whose replacement by a larger value
\* promotes it from the least-recently-used end and evicts the other entry.
C16_Witness ==
    /\ ret.op = "Set" /\ ~ret.fault
    /\ \E s \in Made, v2 \in Values :
          /\ SizeMode(s)
          /\ Len(cache.list) = 2
          /\ v2 # cache.list[2].value.data
          /\ Len(v2.bytes) > cache.list[2].size
          /\ lruKeys(Set1(s, cache, cache.list[2].key, v2).cache) = {cache.list[2].key}

\* D is engine C, which holds k, after Delete(k) through backend s.
DeletedOne(s, C, D, k) ==
    /\ Misses(s, D, k)
    /\ D.size = C.size - Weight(C.list[lruIndex(C, k)].value)
    /\ D.size = ListWeight(D.list)
    /\ Len(D.list) = Len(C.list) - 1
    /\ D.list = SelectSeq(C.list, LAMBDA e : e.key # k)
    /\ D.capacity = C.capacity

\* C17: Delete of a key that a reachable cache holds returns no error; then a
\* Get of the key misses, total weight is lower by the weight of that entry
\* (1 for a count item, the byte length for a size item), and the other
\* entries are the same records in the same recency order.
C17_DeleteRemovesOne ==
    /\ [](\A s \in Made, k \in lruKeys(cache) :
            /\ ~lruCache_Delete(opt[s], cache, <<k>>).fault
            /\ DeletedOne(s, cache, lruCache_Delete(opt[s], cache, <<k>>).cache, k))
    /\ [][(ret'.op = "Delete" /\ ret'.removed = 1) =>
            /\ Len(cache'.list) = Len(cache.list) - 1
            /\ \E k \in lruKeys(cache) : DeletedOne("s1", cache, cache', k)
            /\ opt' = opt /\ ret'.err = "nil"]_vars

\* A Delete in size mode removed one entry and left two that weigh six bytes.
C17_Witness ==
    /\ ret.op = "Delete" /\ ret.removed = 1 /\ ~ret.fault
    /\ SizeMode("s1")
    /\ Len(cache.list) = 2
    /\ cache.size = 6

\* The dynamic type the Get of a backend with options c asserts on a hit.
ReadType(c) == IF c.TrackByObjectCount THEN "itemByCount" ELSE "itemBySize"

\* C18: whatever flags the backend was constructed with, every entry it has
\* written is stored under the mode its Get reads with, and a Get never
\* faults (under Spec every entry a Get hits was written by the one backend
\* that reads it).
C18_OneModeBothWays ==
    /\ \A s \in Made, i \in 1..Len(cache.list) :
          cache.list[i].value.typ = ReadType(opt[s])
    /\ ret.op = "Get" => ~ret.fault

\* r is what Get(keys) returns on engine C: an element is nil exactly when
\* its key is not in C (a Get changes no presence, so C is the cache at the
\* moment of each lookup unless keys repeat, and then too).
NilIffAbsent(C, r, keys) ==
    ~r.fault =>
        /\ Len(r.values) = Len(keys)
        /\ \A i \in 1..Len(keys) : r.values[i].isnil <=> keys[i] \notin lruKeys(C)

\* C19: in every reachable cache state and for every keys, element i of the
\* result of a Get that returns is nil if and only if keys[i] is absent; a
\* key stored with a nil or a zero-length value is not reported as a miss.
C19_NilMeansAbsent ==
    \A s \in Made, keys \in KeySeqs :
        NilIffAbsent(cache, lruCache_Get(opt[s], cache, keys), keys)

\* The entries of an engine as a set of <<key, value, weight>> records.
lruEntries(C) == {C.list[i] : i \in 1..Len(C.list)}

\* D is engine C after a Get of keys: the same entries, the same total
\* weight and Capacity; the same recency order when every key missed.
OnlyPromoted(C, D, keys) ==
    /\ lruKeys(D) = lruKeys(C)
    /\ lruEntries(D) = lruEntries(C)
    /\ Len(D.list) = Len(C.list)
    /\ D.size = C.size /\ D.capacity = C.capacity
    /\ (\A i \in 1..Len(keys) : keys[i] \notin lruKeys(C)) => D = C

\* C20: a Get, hit or miss, faulting or not, leaves the same keys with the
\* same values and weights and the same total weight, and leaves the engine
\* as it was when every key misses; a step after which a key is gone is a
\* Set, a Delete, a Truncate or a Close.
C20_GetKeepsEntries ==
    /\ [](\A s \in Made, keys \in KeySeqs :
            OnlyPromoted(cache, lruCache_Get(opt[s], cache, keys).cache, keys))
    /\ [][/\ ret'.op = "Get" =>
                (lruEntries(cache') = lruEntries(cache) /\ cache'.size = cache.size)
          /\ lruKeys(cache) \ lruKeys(cache') # {} =>
                ret'.op \in {"Set", "Delete", "Truncate", "Close"}]_vars

\* A Get of two keys missed the first and hit the only entry of the cache.
C20_Witness ==
    /\ ret.op = "Get" /\ ~ret.fault
    /\ ret.values = <<NilBytes, SixBytes>>
    /\ Len(cache.list) = 1
    /\ cache.list[1].value.data = SixBytes

\* D is the shared engine after backend s has Set k to v: backend t reads v,
\* the entry is weighed within the one Capacity, and a Delete, a Truncate or
\* a Close through t removes it.
SharedEntry(s, t, D, k, v) ==
    /\ Hits(t, D, k, v)
    /\ BoundedAfterSet(D, k)
    /\ k \notin lruKeys(lruCache_Delete(opt[t], D, <<k>>).cache)
    /\ lruCache_Truncate(opt[t], D).cache.list = <<>>
    /\ lruCache_Close(opt[t], D).cache.list = <<>>

\* Backend s has exactly one of the two flags set.
OneMode(s) == CountMode(s) \/ SizeMode(s)

\* C14: for two different backends constructed on the one engine, each with
\* one tracking flag set (the same or not), an entry Set through one is
\* returned with its bytes by a Get through the other, counts against the
\* shared Capacity and is removed by Delete, Truncate or Close through the
\* other.
C14_SharedDomain ==
    \A s \in Made, t \in Made, k \in Keys, v \in Values :
        (s # t /\ OneMode(s) /\ OneMode(t)) =>
            /\ ~Set1(s, cache, k, v).fault
            /\ SharedEntry(s, t, Set1(s, cache, k, v).cache, k, v)

\* C15: the Capacity of the engine a constructed backend uses is the Capacity
\* recorded in the backend's resolved options, for a fresh engine and for an
\* engine supplied through the options.
C15_EngineHasResolvedCapacity ==
    \A s \in Made : cache.made /\ cache.capacity = opt[s].Capacity

\* Item j of a call made on its own, as a sequential call on engine C.
SeqOp(c, C, call, j) ==
    CASE call.op = "Set" ->
            lruCache_Set(c, C, <<call.keys[j]>>, <<call.values[j]>>, <<>>)
      [] call.op = "Get" -> lruCache_Get(c, C, <<call.keys[j]>>)
      [] call.op = "Delete" -> lruCache_Delete(c, C, <<call.keys[j]>>)
      [] call.op = "Truncate" -> lruCache_Truncate(c, C)

\* Some interleaving of the items j1.. of g1's call and j2.. of g2's call
\* that have been executed, each in index order, leads from engine C with
\* the results o1 and o2 to the present engine and results.
RECURSIVE Interleaves(_, _, _, _, _)
InterleavesAfter1(r, j1, j2, o1, o2) == Interleaves(r.cache, j1 + 1, j2, o1 \o r.values, o2)
InterleavesAfter2(r, j1, j2, o1, o2) == Interleaves(r.cache, j1, j2 + 1, o1, o2 \o r.values)
Interleaves(C, j1, j2, o1, o2) ==
    IF j1 >= calls["g1"].i /\ j2 >= calls["g2"].i
    THEN C = cache /\ o1 = calls["g1"].out /\ o2 = calls["g2"].out
    ELSE \/ /\ j1 < calls["g1"].i
            /\ InterleavesAfter1(SeqOp(opt["s1"], C, calls["g1"], j1), j1, j2, o1, o2)
         \/ /\ j2 < calls["g2"].i
            /\ InterleavesAfter2(SeqOp(opt["s1"], C, calls["g2"], j2), j1, j2, o1, o2)

\* The whole call made on engine C as one sequential call.
SeqCall(c, C, call) ==
    CASE call.op = "Set" -> lruCache_Set(c, C, call.keys, call.values, <<>>)
      [] call.op = "Get" -> lruCache_Get(c, C, call.keys)
      [] call.op = "Delete" -> lruCache_Delete(c, C, call.keys)
      [] call.op = "Truncate" -> lruCache_Truncate(c, C)

\* The present engine and results are those of the call of g made as a whole
\* and then the call of h made as a whole.
OneAfterTheOther(r, g, h) ==
    /\ r.values = calls[g].out
    /\ SeqCall(opt["s1"], r.cache, calls[h]).values = calls[h].out
    /\ SeqCall(opt["s1"], r.cache, calls[h]).cache = cache

\* C11: while two goroutines are in batched Set, Get, Delete or Truncate
\* calls on one engine, and when both have returned, the engine and the
\* results gathered so far are those of some sequential interleaving of the
\* single-key operations executed so far that keeps the index order of each
\* batch; no call faults.
C11_Interleaving ==
    (\A g \in Goroutines : calls[g].op # "none") =>
        /\ Interleaves(start, 1, 1, <<>>, <<>>)
        /\ \A g \in Goroutines : ~calls[g].fault

\* Both calls have returned, and the engine and the results are those of
\* neither order of the two whole batches: an operation of one call took
\* effect between two items of the other.
C11_Witness ==
    /\ \A g \in Goroutines : calls[g].op # "none" /\ Complete(calls[g])
    /\ ~OneAfterTheOther(SeqCall(opt["s1"], start, calls["g1"]), "g1", "g2")
    /\ ~OneAfterTheOther(SeqCall(opt["s1"], start, calls["g2"]), "g2", "g1")

====
